---- MODULE Spec2Model ----
(***************************************************************************)
(* A state-machine model of debbugy.py: the log scanner                    *)
(* (extract_first_uvm_error), the include resolver (find_related_tb_files),*)
(* the waveform extractor (extract_vcd_window), the reply parser           *)
(* (parse_llm_json), the retry loop (get_debug_plan_with_retry) and the    *)
(* orchestrator (run_ai_debug).                                            *)
(*                                                                         *)
(* Text is modelled as a sequence of tokens (one-character or one-word     *)
(* strings); a file is a sequence of lines.  A Python exception is the     *)
(* name of its class in the variable exc.                                  *)
(***************************************************************************)
EXTENDS Integers, Sequences, FiniteSets, TLC

VARIABLES
    top,            \* the function the external caller invoked
    pc,             \* position of the single thread of control
    exc,            \* class of the exception that reached the caller, or "None"
    cause,          \* the exception chained to exc by  raise ... from e , or None
    raised_at,      \* source line that raised exc, 0 when nothing was raised
    ret,            \* value returned to the caller by the function `top`
    log_file,       \* content of the log: a sequence of lines
    context_lines,  \* extract_first_uvm_error's context_lines argument
    i,              \* 1-based number of the last log line read
    prev,           \* the deque of extract_first_uvm_error
    error_info,     \* result of the scanner: None or the failure record
    fs,             \* the file system: content of each file, None when absent
    tb_file,        \* find_related_tb_files's tb_file argument
    search_paths,   \* find_related_tb_files's search_paths argument
    related,        \* the set `related` of find_related_tb_files
    stack,          \* the activations of scan(file), innermost last
    scans,          \* how many times each path was opened and read by scan
    vcd_file,       \* content of the waveform trace: a sequence of lines
    signal,         \* extract_vcd_window's signal argument
    start,          \* extract_vcd_window's start argument
    end,            \* extract_vcd_window's end argument
    current_time,   \* extract_vcd_window's time cursor
    results,        \* extract_vcd_window's list of (time, line) pairs
    vcd_pos,        \* number of trace lines read so far
    retries,        \* get_debug_plan_with_retry's retries argument
    attempt,        \* loop variable of get_debug_plan_with_retry
    response,       \* the reply under examination in get_debug_plan_with_retry
    calls,          \* the oracle invocations made so far, oldest first
    related_files,  \* run_ai_debug's list `related`
    debug_plan,     \* run_ai_debug's raw plan text
    plan,           \* run_ai_debug's parsed plan
    vcd_data,       \* run_ai_debug's mapping from signal to matches
    sig_idx         \* number of signals of the plan already extracted

scanVars == <<log_file, context_lines, i, prev, error_info>>

resolveVars == <<fs, tb_file, search_paths, related, stack, scans>>

extractVars == <<vcd_file, signal, start, end, current_time, results, vcd_pos>>

retryVars == <<retries, attempt, response, calls>>

orchVars == <<related_files, debug_plan, plan, vcd_data, sig_idx>>

errVars == <<exc, cause, raised_at>>

vars == <<top, pc, errVars, ret, scanVars, resolveVars, extractVars, retryVars,
          orchVars>>

(***************************************************************************)
(* Bounds of the model.                                                    *)
(***************************************************************************)
MaxLogLen == 3
MaxContext == 2
\* stands for the interpreter's recursion limit (sys.getrecursionlimit())
RecursionLimit == 4
MaxTraceLen == 3
MaxTime == 2
MaxTextLen == 4
MaxRetries == 2

(***************************************************************************)
(* Generic helpers.                                                        *)
(***************************************************************************)
None == [none |-> TRUE]

SeqsUpTo(S, n) == UNION {[1..k -> S] : k \in 0..n}

Min(a, b) == IF a <= b THEN a ELSE b

Whitespace == {" "}

\* The class of the exception raised at each source line that can raise
RaisedClass ==
    [l \in {30, 55, 100, 117, 142, 156, 164, 166, 175, 183, 199, 203} |->
        CASE l = 30  -> "IndexError"
          [] l = 55  -> "RecursionError"
          [] l \in {100, 142} -> "APIError"
          [] l \in {117, 156, 164} -> "ValueError"
          [] l = 166 -> "JSONDecodeError"
          [] l \in {175, 183} -> "RuntimeError"
          [] l \in {199, 203} -> "KeyError"]

\* str.rstrip(): drop the trailing whitespace
RECURSIVE RStrip(_)
RStrip(s) ==
    IF s # <<>> /\ s[Len(s)] \in Whitespace
    THEN RStrip(SubSeq(s, 1, Len(s) - 1))
    ELSE s

\* str.lstrip(): drop the leading whitespace
RECURSIVE LStrip(_)
LStrip(s) ==
    IF s # <<>> /\ s[1] \in Whitespace THEN LStrip(Tail(s)) ELSE s

\* str.strip()
Strip(s) == LStrip(RStrip(s))

(***************************************************************************)
(* 2. UVM log parsing.                                                     *)
(* A log line is a sequence of tokens.  A location token stands for the    *)
(* text  file(line)  matched by  ([\w./\\-]+)\((\d+)\).                    *)
(***************************************************************************)
Severity == {"UVM_ERROR", "UVM_FATAL"}

LocFile == [x \in {"tb.sv(3)", "env.sv(7)"} |->
              IF x = "tb.sv(3)" THEN "tb.sv" ELSE "env.sv"]

LocDigits == [x \in {"tb.sv(3)", "env.sv(7)"} |->
                IF x = "tb.sv(3)" THEN "3" ELSE "7"]

Loc == DOMAIN LocFile

DigitVal == [d \in {"0", "1", "2", "3", "4", "5", "6", "7", "8", "9"} |->
               CASE d = "0" -> 0 [] d = "1" -> 1 [] d = "2" -> 2
                 [] d = "3" -> 3 [] d = "4" -> 4 [] d = "5" -> 5
                 [] d = "6" -> 6 [] d = "7" -> 7 [] d = "8" -> 8
                 [] d = "9" -> 9]

\* error_patterns[0]: (UVM_ERROR|UVM_FATAL).*?([\w./\\-]+)\((\d+)\)
\* The groups of the leftmost match, or None when the line does not match.
Pattern1(line) ==
    LET starts == {a \in 1..Len(line) :
                     /\ line[a] \in Severity
                     /\ \E b \in (a + 1)..Len(line) : line[b] \in Loc}
    IN  IF starts = {} THEN None
        ELSE LET a == CHOOSE s \in starts : \A t \in starts : s <= t
                 b == CHOOSE s \in (a + 1)..Len(line) :
                        /\ line[s] \in Loc
                        /\ \A t \in (a + 1)..(s - 1) : line[t] \notin Loc
             IN  [groups |-> <<line[a], LocFile[line[b]], LocDigits[line[b]]>>]

\* The position of the first non-whitespace token after position a
\* (Len(line) + 1 when there is none): the effect of \s*
RECURSIVE SkipWs(_, _)
SkipWs(line, a) ==
    IF a <= Len(line) /\ line[a] \in Whitespace
    THEN SkipWs(line, a + 1)
    ELSE a

\* error_patterns[1]: \*\*\s*Error:\s*([\w./\\-]+)\((\d+)\)
Pattern2(line) ==
    LET starts == {a \in 1..Len(line) :
                     /\ line[a] = "** Error:"
                     /\ SkipWs(line, a + 1) <= Len(line)
                     /\ line[SkipWs(line, a + 1)] \in Loc}
    IN  IF starts = {} THEN None
        ELSE LET a == CHOOSE s \in starts : \A t \in starts : s <= t
                 b == SkipWs(line, a + 1)
             IN  [groups |-> <<LocFile[line[b]], LocDigits[line[b]]>>]

error_patterns == <<"Pattern1", "Pattern2">>

PatSearch(pat, line) ==
    IF pat = "Pattern1" THEN Pattern1(line) ELSE Pattern2(line)

\* The first pattern, in list order, that matches the line; 0 when none does
FirstPattern(line) ==
    IF PatSearch(error_patterns[1], line) # None THEN 1
    ELSE IF PatSearch(error_patterns[2], line) # None THEN 2
    ELSE 0

\* collections.deque(maxlen = n).append(x)
DequeAppend(q, x, maxlen) ==
    IF maxlen = 0 THEN <<>>
    ELSE IF Len(q) = maxlen THEN Append(Tail(q), x)
    ELSE Append(q, x)

\* list(prev)[:-1]
AllButLast(q) == IF q = <<>> THEN <<>> ELSE SubSeq(q, 1, Len(q) - 1)

\* The dict built at the return statement for match m of line number n;
\* m.group(k) with k beyond the pattern's groups raises IndexError.
FailureRecord(n, line, m, q) ==
    IF Len(m.groups) < 3
    THEN [raise |-> RaisedClass[30]]
    ELSE [log_line   |-> n,
          error_text |-> Strip(line),
          tb_file    |-> m.groups[2],
          tb_line    |-> DigitVal[m.groups[3]],
          context    |-> AllButLast(q)]

IsRaise(r) == "raise" \in DOMAIN r

(***************************************************************************)
(* Input sets.                                                             *)
(***************************************************************************)
LogLines ==
    { <<"info">>,
      <<"UVM_ERROR", " ", "tb.sv(3)">>,
      <<" ", "** Error:", " ", "env.sv(7)", " ">>,
      <<"UVM_FATAL", "** Error:", "tb.sv(3)">>,
      <<"env.sv(7)", "UVM_ERROR">> }

Logs == SeqsUpTo(LogLines, MaxLogLen)

(***************************************************************************)
(* extract_first_uvm_error, one action per iteration of the for loop.      *)
(***************************************************************************)
\* Control returns from the scanner with value r (a record or None) or
\* with an exception.
ScanReturn(r) ==
    IF IsRaise(r)
    THEN /\ error_info' = None
         /\ exc' = r.raise /\ cause' = None /\ raised_at' = 30
         /\ pc' = "raised"
         /\ ret' = ret
    ELSE /\ error_info' = r
         /\ UNCHANGED errVars
         /\ IF top = "extract_first_uvm_error"
            THEN pc' = "done" /\ ret' = r
            ELSE pc' = "scanned" /\ ret' = ret

ScanLine ==
    /\ pc = "scan"
    /\ i < Len(log_file)
    /\ LET n    == i + 1
           line == log_file[n]
           q    == DequeAppend(prev, RStrip(line), context_lines)
           p    == FirstPattern(line)
       IN  /\ i' = n
           /\ prev' = q
           /\ IF p = 0
              THEN UNCHANGED <<pc, errVars, ret, error_info>>
              ELSE ScanReturn(FailureRecord(n, line,
                                  PatSearch(error_patterns[p], line), q))
    /\ UNCHANGED <<top, log_file, context_lines, resolveVars, extractVars,
                   retryVars, orchVars>>

ScanEOF ==
    /\ pc = "scan"
    /\ i = Len(log_file)
    /\ ScanReturn(None)
    /\ UNCHANGED <<top, log_file, context_lines, i, prev, resolveVars,
                   extractVars, retryVars, orchVars>>

(***************************************************************************)
(* 3. Related testbench file discovery.                                    *)
(* A path string is a record [dir, name]; dir = "" is a bare file name,    *)
(* which the operating system resolves against the working directory ".".  *)
(***************************************************************************)
FileNames == {"tb.sv", "env.sv"}

Dirs == {".", "inc"}

Files == [dir : Dirs, name : FileNames]

PathStrings == [dir : Dirs \cup {""}, name : FileNames]

\* The file a path string names
Canon(path) ==
    IF path.dir = "" THEN [dir |-> ".", name |-> path.name] ELSE path

\* os.path.exists(path)
Exists(path) == fs[Canon(path)] # None

\* os.path.join(p, name)
Join(p, name) == [dir |-> p, name |-> name]

\* include_re: the token "include" stands for the directive keyword and a
\* file-name token for the quoted name that follows it.
\* The group of the leftmost match, or None.
IncludeRe(line) ==
    LET starts == {a \in 1..Len(line) :
                     /\ line[a] = "include"
                     /\ a + 1 <= Len(line)
                     /\ line[a + 1] \in Whitespace
                     /\ SkipWs(line, a + 1) <= Len(line)
                     /\ line[SkipWs(line, a + 1)] \in FileNames}
    IN  IF starts = {} THEN None
        ELSE LET a == CHOOSE x \in starts : \A t \in starts : x <= t
             IN  [group1 |-> line[SkipWs(line, a + 1)]]

\* list(s): the elements of the set s in an order the caller cannot rely on
ListsOf(s) ==
    {l \in [1..Cardinality(s) -> s] :
        \A a, b \in 1..Cardinality(s) : a # b => l[a] # l[b]}

IncludeLine(name) == <<"include", " ", name>>

FileBodies ==
    { <<>>,
      <<IncludeLine("tb.sv")>>,
      <<IncludeLine("env.sv")>>,
      <<<<"include", "tb.sv">>, IncludeLine("env.sv"), IncludeLine("tb.sv")>> }

FileSystems == [Files -> {[lines |-> b] : b \in FileBodies} \cup {None}]

SearchPaths == {<<".">>, <<"inc">>, <<".", "inc">>, <<"inc", ".">>}

TopFrame == stack[Len(stack)]

\* A resolver whose caller goes on to the retry loop without the raw plan
ResolveReturnSkipsRawPlan(l) ==
    /\ UNCHANGED errVars
    /\ IF top = "find_related_tb_files"
       THEN pc' = "done" /\ ret' = [list |-> l]
            /\ related_files' = related_files
       ELSE pc' = "retry_ask" /\ ret' = ret /\ related_files' = l

\* find_related_tb_files returns the list l
ResolveReturn(l) ==
    /\ UNCHANGED errVars
    /\ IF top = "find_related_tb_files"
       THEN pc' = "done" /\ ret' = [list |-> l]
            /\ related_files' = related_files
       ELSE pc' = "ask_plan" /\ ret' = ret /\ related_files' = l

\* A scan that records the included files only, not the file it starts from
ScanCallSkipsEntry(file, stk) ==
    IF ~Exists(file)
    THEN /\ stack' = stk
         /\ UNCHANGED <<related, scans>>
         /\ IF stk = <<>>
            THEN \E l \in ListsOf(related) : ResolveReturn(l)
            ELSE UNCHANGED <<pc, errVars, ret, related_files>>
    ELSE IF Len(stk) >= RecursionLimit
    THEN /\ exc' = RaisedClass[55] /\ cause' = None /\ raised_at' = 55
         /\ pc' = "raised"
         /\ stack' = <<>>
         /\ UNCHANGED <<related, scans, ret, related_files>>
    ELSE /\ related' = IF stk = <<>> THEN related ELSE related \cup {file}
         /\ scans' = [scans EXCEPT ![file] = @ + 1]
         /\ stack' = Append(stk, [file |-> file, ln |-> 1, rt |-> 0])
         /\ pc' = "resolve_scan"
         /\ UNCHANGED <<errVars, ret, related_files>>

\* The call scan(file) made with the activations stk below it
ScanCall(file, stk) ==
    IF ~Exists(file)
    THEN /\ stack' = stk
         /\ UNCHANGED <<related, scans>>
         /\ IF stk = <<>>
            THEN \E l \in ListsOf(related) : ResolveReturn(l)
            ELSE UNCHANGED <<pc, errVars, ret, related_files>>
    ELSE IF Len(stk) >= RecursionLimit
    THEN /\ exc' = RaisedClass[55] /\ cause' = None /\ raised_at' = 55
         /\ pc' = "raised"
         /\ stack' = <<>>
         /\ UNCHANGED <<related, scans, ret, related_files>>
    ELSE /\ related' = related \cup {file}
         /\ scans' = [scans EXCEPT ![file] = @ + 1]
         /\ stack' = Append(stk, [file |-> file, ln |-> 1, rt |-> 0])
         /\ pc' = "resolve_scan"
         /\ UNCHANGED <<errVars, ret, related_files>>

\* find_related_tb_files up to the outermost call scan(tb_file)
ResolveEnter ==
    /\ pc = "resolve"
    /\ ScanCall(tb_file, <<>>)
    /\ UNCHANGED <<top, fs, tb_file, search_paths, scanVars, extractVars,
                   retryVars, debug_plan, plan, vcd_data, sig_idx>>

\* one iteration of  for line in f : the line is tested against include_re
ResolveLine ==
    /\ pc = "resolve_scan"
    /\ stack # <<>>
    /\ TopFrame.rt = 0
    /\ TopFrame.ln <= Len(fs[Canon(TopFrame.file)].lines)
    /\ LET line == fs[Canon(TopFrame.file)].lines[TopFrame.ln]
       IN  IF IncludeRe(line) = None
           THEN stack' = [stack EXCEPT ![Len(stack)].ln = @ + 1]
           ELSE stack' = [stack EXCEPT ![Len(stack)].rt = 1]
    /\ UNCHANGED <<top, pc, errVars, ret, fs, tb_file, search_paths, related,
                   scans, scanVars, extractVars, retryVars, orchVars>>

\* one iteration of  for p in search_paths , or the end of that loop
ResolveRoot ==
    /\ pc = "resolve_scan"
    /\ stack # <<>>
    /\ TopFrame.rt >= 1
    /\ LET f    == TopFrame
           line == fs[Canon(f.file)].lines[f.ln]
       IN  IF f.rt > Len(search_paths)
           THEN /\ stack' = [stack EXCEPT ![Len(stack)] =
                                [f EXCEPT !.ln = @ + 1, !.rt = 0]]
                /\ UNCHANGED <<pc, errVars, ret, related, scans, related_files>>
           ELSE LET inc == Join(search_paths[f.rt], IncludeRe(line).group1)
                    stk == [stack EXCEPT ![Len(stack)].rt = @ + 1]
                IN  IF Exists(inc)
                    THEN ScanCall(inc, stk)
                    ELSE /\ stack' = stk
                         /\ UNCHANGED <<pc, errVars, ret, related, scans,
                                        related_files>>
    /\ UNCHANGED <<top, fs, tb_file, search_paths, scanVars, extractVars,
                   retryVars, debug_plan, plan, vcd_data, sig_idx>>

\* scan(file) has read its last line and returns
ResolveExit ==
    /\ pc = "resolve_scan"
    /\ stack # <<>>
    /\ TopFrame.rt = 0
    /\ TopFrame.ln > Len(fs[Canon(TopFrame.file)].lines)
    /\ stack' = SubSeq(stack, 1, Len(stack) - 1)
    /\ IF Len(stack) = 1
       THEN \E l \in ListsOf(related) : ResolveReturn(l)
       ELSE UNCHANGED <<pc, errVars, ret, related_files>>
    /\ UNCHANGED <<top, fs, tb_file, search_paths, related, scans, scanVars,
                   extractVars, retryVars, debug_plan, plan, vcd_data, sig_idx>>

(***************************************************************************)
(* 6. VCD signal extraction.                                               *)
(* A trace line and a signal name are sequences of one-character tokens.   *)
(***************************************************************************)
Digits == DOMAIN DigitVal

\* The number written by a non-empty sequence of digits
RECURSIVE DecimalValue(_)
DecimalValue(ds) ==
    IF Len(ds) = 1 THEN DigitVal[ds[1]]
    ELSE 10 * DecimalValue(SubSeq(ds, 1, Len(ds) - 1)) + DigitVal[ds[Len(ds)]]

\* A conversion that reads anything it cannot parse as 0
ParseIntLenient(text) ==
    LET t      == Strip(text)
        signed == t # <<>> /\ t[1] \in {"-", "+"}
        ds     == IF signed THEN Tail(t) ELSE t
    IN  IF ds = <<>> \/ \E k \in 1..Len(ds) : ds[k] \notin Digits
        THEN [value |-> 0]
        ELSE [value |-> IF signed /\ t[1] = "-"
                        THEN 0 - DecimalValue(ds)
                        ELSE DecimalValue(ds)]

\* int(text): surrounding whitespace and one sign are accepted; anything
\* but a non-empty run of digits after them raises ValueError.
ParseInt(text) ==
    LET t      == Strip(text)
        signed == t # <<>> /\ t[1] \in {"-", "+"}
        ds     == IF signed THEN Tail(t) ELSE t
    IN  IF ds = <<>> \/ \E k \in 1..Len(ds) : ds[k] \notin Digits
        THEN [raise |-> RaisedClass[117]]
        ELSE [value |-> IF signed /\ t[1] = "-"
                        THEN 0 - DecimalValue(ds)
                        ELSE DecimalValue(ds)]

\* line.startswith("#")
StartsWithHash(line) == line # <<>> /\ line[1] = "#"

\* sub in line
Contains(line, sub) ==
    \E a \in 1..(Len(line) + 1) :
        /\ a + Len(sub) - 1 <= Len(line)
        /\ SubSeq(line, a, a + Len(sub) - 1) = sub

\* A window test that leaves out the two ends
InWindowExclusive(t, s, e) == s < t /\ t < e

\* start <= current_time <= end
InWindow(t, s, e) == s <= t /\ t <= e

\* A list that takes the new pair at its head
EmitFront(rs, t, line) == <<<<t, line>>>> \o rs

\* results.append((current_time, line))
Emit(rs, t, line) == Append(rs, <<t, line>>)

\* A time cursor that starts below every time a marker can set
InitialTimeUnset == 0 - (MaxTime + 2)

\* current_time = 0  before the first line is read
InitialTime == 0

TraceLines ==
    { <<"#", "1">>,
      <<"#", "2">>,
      <<" ", "#", "-", "1", " ">>,
      <<"#", "x">>,
      <<"a", "b">>,
      <<" ", "b", " ">>,
      <<"b", "a">> }

Traces == SeqsUpTo(TraceLines, MaxTraceLen)

Signals == {<<"a">>, <<"a", "b">>}

Times == (0 - 1)..MaxTime

\* extract_vcd_window returns the list r
ExtractReturn(r) ==
    /\ UNCHANGED errVars
    /\ IF top = "extract_vcd_window"
       THEN /\ pc' = "done"
            /\ ret' = [matches |-> r]
            /\ UNCHANGED <<vcd_data, sig_idx>>
       ELSE /\ pc' = "extract_loop"
            /\ ret' = ret
            /\ vcd_data' = [s \in DOMAIN vcd_data \cup {signal} |->
                              IF s = signal THEN r ELSE vcd_data[s]]
            /\ sig_idx' = sig_idx + 1

\* one iteration of  for line in f
ExtractLine ==
    /\ pc = "extract"
    /\ vcd_pos < Len(vcd_file)
    /\ vcd_pos' = vcd_pos + 1
    /\ LET line == Strip(vcd_file[vcd_pos + 1])
       IN  IF StartsWithHash(line)
           THEN LET t == ParseInt(Tail(line))
                IN  IF IsRaise(t)
                    THEN /\ exc' = t.raise /\ cause' = None /\ raised_at' = 117
                         /\ pc' = "raised"
                         /\ UNCHANGED <<current_time, results>>
                    ELSE /\ current_time' = t.value
                         /\ UNCHANGED <<pc, errVars, results>>
           ELSE /\ IF InWindow(current_time, start, end)
                      /\ Contains(line, signal)
                   THEN results' = Emit(results, current_time, line)
                   ELSE results' = results
                /\ UNCHANGED <<pc, errVars, current_time>>
    /\ UNCHANGED <<top, ret, vcd_file, signal, start, end, scanVars,
                   resolveVars, retryVars, orchVars>>

\* the trace is exhausted:  return results
ExtractEOF ==
    /\ pc = "extract"
    /\ vcd_pos = Len(vcd_file)
    /\ ExtractReturn(results)
    /\ UNCHANGED <<top, extractVars, scanVars, resolveVars, retryVars,
                   related_files, debug_plan, plan>>

(***************************************************************************)
(* 8. Reply parsing.                                                       *)
(* A reply is None or [text |-> tokens].  The tokens are the two code      *)
(* fence markers ("<fence>" stands for three backquotes), the two braces,  *)
(* whitespace, a word of prose "x", and                                    *)
(* member tokens, each standing for a well-formed list of JSON members.    *)
(***************************************************************************)
Fences == {"<fence>json", "<fence>"}

\* The object written by each member token
ObjectOf ==
    [m \in {"m1", "m2", "m3"} |->
        CASE m = "m1" -> [signals |-> <<<<"a">>>>, start_time |-> 0,
                          end_time |-> 1, reasoning |-> "r"]
          [] m = "m2" -> [signals |-> <<<<"a", "b">>, <<"a">>>>,
                          start_time |-> 1, end_time |-> 0, reasoning |-> "r"]
          [] m = "m3" -> [reasoning |-> "r"]]

Members == DOMAIN ObjectOf

EmptyObject == [t \in {} |-> 0]

\* re.sub(r"```json|```", "", text, flags = re.IGNORECASE)
RECURSIVE RemoveFences(_)
RemoveFences(t) ==
    IF t = <<>> THEN <<>>
    ELSE IF t[1] \in Fences THEN RemoveFences(Tail(t))
    ELSE <<t[1]>> \o RemoveFences(Tail(t))

\* A search that stops at the first closing brace after the first opening
\* brace, as a non-greedy or brace-balanced scanner does on flat objects
BraceSearchShortest(t) ==
    LET opens  == {a \in 1..Len(t) : t[a] = "{"}
        first  == CHOOSE a \in opens : \A b \in opens : a <= b
        closes == {a \in 1..Len(t) : t[a] = "}" /\ a > first}
        last   == CHOOSE a \in closes : \A b \in closes : a <= b
    IN  IF opens = {} THEN None
        ELSE IF closes = {} THEN None
        ELSE [group0 |-> SubSeq(t, first, last)]

\* re.search(r"\{.*\}", text, flags = re.DOTALL): the text from the first
\* opening brace to the last closing brace after it, or None
BraceSearch(t) ==
    LET opens  == {a \in 1..Len(t) : t[a] = "{"}
        first  == CHOOSE a \in opens : \A b \in opens : a <= b
        closes == {a \in 1..Len(t) : t[a] = "}" /\ a > first}
        last   == CHOOSE a \in closes : \A b \in closes : b <= a
    IN  IF opens = {} THEN None
        ELSE IF closes = {} THEN None
        ELSE [group0 |-> SubSeq(t, first, last)]

\* json.loads(c) for a text c that starts with "{" and ends with "}"
JsonLoads(c) ==
    LET body == Strip(SubSeq(c, 2, Len(c) - 1))
    IN  IF body = <<>> THEN [value |-> EmptyObject]
        ELSE IF Len(body) = 1 /\ body[1] \in Members
             THEN [value |-> ObjectOf[body[1]]]
             ELSE [raise |-> RaisedClass[166], line |-> 166]

\* A parser that reports a decode failure as it reports a missing payload
parse_llm_json_OneClass(reply) ==
    IF reply = None \/ reply.text = <<>> \/ Strip(reply.text) = <<>>
    THEN [raise |-> RaisedClass[156], line |-> 156]
    ELSE LET text  == Strip(RemoveFences(reply.text))
             match == BraceSearch(text)
         IN  IF match = None
             THEN [raise |-> RaisedClass[164], line |-> 164]
             ELSE IF IsRaise(JsonLoads(match.group0))
             THEN [raise |-> RaisedClass[164], line |-> 166]
             ELSE JsonLoads(match.group0)

\* parse_llm_json(text): [value |-> the decoded object] or
\* [raise |-> the class of the exception, line |-> the line that raises it]
parse_llm_json(reply) ==
    IF reply = None \/ reply.text = <<>> \/ Strip(reply.text) = <<>>
    THEN [raise |-> RaisedClass[156], line |-> 156]
    ELSE LET text  == Strip(RemoveFences(reply.text))
             match == BraceSearch(text)
         IN  IF match = None
             THEN [raise |-> RaisedClass[164], line |-> 164]
             ELSE JsonLoads(match.group0)

TextTokens == Fences \cup {"{", "}", " ", "x", "m1"}

Texts == SeqsUpTo(TextTokens, MaxTextLen)

\* parse_llm_json called on its own
ParseReply ==
    /\ pc = "parse"
    /\ LET r == parse_llm_json(response)
       IN  IF IsRaise(r)
           THEN /\ exc' = r.raise /\ cause' = None /\ raised_at' = r.line
                /\ pc' = "raised"
                /\ ret' = ret
           ELSE /\ pc' = "done"
                /\ ret' = r
                /\ UNCHANGED errVars
    /\ UNCHANGED <<top, scanVars, resolveVars, extractVars, retryVars,
                   orchVars>>

(***************************************************************************)
(* 4, 5, 7. The oracle.  What it answers is outside the program: each      *)
(* invocation either returns one of OracleReplies or fails in transport.   *)
(***************************************************************************)
OracleReplies ==
    { None,
      [text |-> <<" ">>],
      [text |-> <<"x">>],
      [text |-> <<"x", "{", "x", "}">>],
      [text |-> <<"<fence>json", "{", "m1", "}", "<fence>">>],
      [text |-> <<"x", "{", " ", "m2", "}", "x">>],
      [text |-> <<"{", "m3", "}">>],
      [text |-> <<"{", "m1", "}", "{", "m1", "}">>] }

ReportReplies == {[text |-> <<"x">>]}

(***************************************************************************)
(* get_debug_plan_with_retry: one action for the loop head with the oracle *)
(* invocation, one for the try statement.                                  *)
(***************************************************************************)
\* range(retries + 1) has no value left for the loop variable a
RangeExhausted(a, n) == a > n

\* A test that never finds the last attempt
LastAttemptNever(a, n) == a = n + 1

\* if attempt == retries
LastAttempt(a, n) == a = n

\* A failure of the client call that the except clause of the retry loop
\* catches as it catches a failure of parse_llm_json
AskRaisesCaught ==
    /\ pc' = "retry_parse"
    /\ UNCHANGED errVars

\* client.chat.completions.create raises inside ask_llm_for_debug_plan; no
\* handler encloses the call, in the function or in either caller
AskRaises ==
    /\ exc' = RaisedClass[100] /\ cause' = None /\ raised_at' = 100
    /\ pc' = "raised"

\* A return statement that is missing: the loop goes on while attempts remain
RetryReturnMissing(v) ==
    /\ UNCHANGED errVars
    /\ IF attempt < retries
       THEN pc' = "retry_ask" /\ ret' = ret /\ plan' = plan
       ELSE IF top = "get_debug_plan_with_retry"
       THEN pc' = "done" /\ ret' = [value |-> v] /\ plan' = plan
       ELSE pc' = "extract_loop" /\ ret' = ret /\ plan' = v

\* get_debug_plan_with_retry returns v
RetryReturn(v) ==
    /\ UNCHANGED errVars
    /\ IF top = "get_debug_plan_with_retry"
       THEN pc' = "done" /\ ret' = [value |-> v] /\ plan' = plan
       ELSE pc' = "extract_loop" /\ ret' = ret /\ plan' = v

\* for attempt in range(retries + 1):  response = ask_llm_for_debug_plan(...)
RetryAsk ==
    /\ pc = "retry_ask"
    /\ IF RangeExhausted(attempt, retries)
       THEN /\ RetryReturn(None)
            /\ UNCHANGED <<response, calls>>
       ELSE \/ \E r \in OracleReplies :
                 /\ response' = r
                 /\ calls' = Append(calls, [fn |-> "ask_llm_for_debug_plan",
                                            by |-> "get_debug_plan_with_retry",
                                            reply |-> r])
                 /\ pc' = "retry_parse"
                 /\ UNCHANGED <<errVars, ret, plan>>
            \/ /\ calls' = Append(calls, [fn |-> "ask_llm_for_debug_plan",
                                          by |-> "get_debug_plan_with_retry",
                                          reply |-> [raise |-> RaisedClass[100]]])
               /\ AskRaises
               /\ UNCHANGED <<response, ret, plan>>
    /\ UNCHANGED <<top, retries, attempt, scanVars, resolveVars, extractVars,
                   related_files, debug_plan, vcd_data, sig_idx>>

\* try: return parse_llm_json(response)  except Exception as e: ...
RetryParse ==
    /\ pc = "retry_parse"
    /\ LET r == parse_llm_json(response)
       IN  IF ~IsRaise(r)
           THEN /\ RetryReturn(r.value)
                /\ attempt' = attempt
           ELSE IF LastAttempt(attempt, retries)
           THEN /\ exc' = RaisedClass[175]
                /\ cause' = [exc |-> r.raise, raised_at |-> r.line]
                /\ raised_at' = 175
                /\ pc' = "raised"
                /\ UNCHANGED <<attempt, ret, plan>>
           ELSE /\ attempt' = attempt + 1
                /\ pc' = "retry_ask"
                /\ UNCHANGED <<errVars, ret, plan>>
    /\ UNCHANGED <<top, retries, response, calls, scanVars, resolveVars,
                   extractVars, related_files, debug_plan, vcd_data, sig_idx>>

(***************************************************************************)
(* run_ai_debug: the steps between the calls of the functions above.       *)
(***************************************************************************)
MAX_CONTEXT_LINES == 15

\* the default value of get_debug_plan_with_retry's retries parameter
DefaultRetries == 2

\* if not error_info: raise RuntimeError("No UVM error found")
\* and the arguments of find_related_tb_files
RunCheckError ==
    /\ pc = "scanned"
    /\ IF error_info = None
       THEN /\ exc' = RaisedClass[183] /\ cause' = None /\ raised_at' = 183
            /\ pc' = "raised"
            /\ tb_file' = tb_file
       ELSE /\ pc' = "resolve"
            /\ tb_file' = [dir |-> "", name |-> error_info.tb_file]
            /\ UNCHANGED errVars
    /\ UNCHANGED <<top, ret, scanVars, fs, search_paths, related, stack, scans,
                   extractVars, retryVars, orchVars>>

\* debug_plan = ask_llm_for_debug_plan(error_info, related)
\* and the arguments of get_debug_plan_with_retry
AskPlan ==
    /\ pc = "ask_plan"
    /\ \/ \E r \in OracleReplies :
             /\ debug_plan' = r
             /\ calls' = Append(calls, [fn |-> "ask_llm_for_debug_plan",
                                        by |-> "run_ai_debug",
                                        reply |-> r])
             /\ retries' = DefaultRetries
             /\ attempt' = 0
             /\ pc' = "retry_ask"
             /\ UNCHANGED errVars
       \/ /\ calls' = Append(calls, [fn |-> "ask_llm_for_debug_plan",
                                     by |-> "run_ai_debug",
                                     reply |-> [raise |-> RaisedClass[100]]])
          /\ AskRaises
          /\ UNCHANGED <<debug_plan, retries, attempt>>
    /\ UNCHANGED <<top, ret, response, scanVars, resolveVars, extractVars,
                   related_files, plan, vcd_data, sig_idx>>

\* for sig in plan["signals"]:  the next signal and the arguments of
\* extract_vcd_window, or the end of the loop
ExtractNext ==
    /\ pc = "extract_loop"
    /\ IF "signals" \notin DOMAIN plan
       THEN /\ exc' = RaisedClass[199] /\ cause' = None /\ raised_at' = 199
            /\ pc' = "raised"
            /\ UNCHANGED <<signal, start, end, current_time, results, vcd_pos>>
       ELSE IF sig_idx >= Len(plan.signals)
       THEN /\ pc' = "analyze"
            /\ UNCHANGED <<errVars, signal, start, end, current_time, results,
                           vcd_pos>>
       ELSE IF {"start_time", "end_time"} \subseteq DOMAIN plan
       THEN /\ signal' = plan.signals[sig_idx + 1]
            /\ start' = plan.start_time
            /\ end' = plan.end_time
            /\ current_time' = InitialTime
            /\ results' = <<>>
            /\ vcd_pos' = 0
            /\ pc' = "extract"
            /\ UNCHANGED errVars
       ELSE /\ exc' = RaisedClass[203] /\ cause' = None /\ raised_at' = 203
            /\ pc' = "raised"
            /\ UNCHANGED <<signal, start, end, current_time, results, vcd_pos>>
    /\ UNCHANGED <<top, ret, vcd_file, scanVars, resolveVars, retryVars,
                   orchVars>>

\* Arguments that carry the reply examined by the retry loop as plan text
AnalyzeArgsParsedReply ==
    [error_info |-> error_info, debug_plan |-> response,
     vcd_data |-> vcd_data]

\* The arguments of analyze_with_vcd(error_info, debug_plan, vcd_data)
AnalyzeArgs ==
    [error_info |-> error_info, debug_plan |-> debug_plan,
     vcd_data |-> vcd_data]

\* final_report = analyze_with_vcd(error_info, debug_plan, vcd_data)
\* return final_report
Analyze ==
    /\ pc = "analyze"
    /\ LET args == AnalyzeArgs
       IN  \/ \E r \in ReportReplies :
                /\ calls' = Append(calls, [fn |-> "analyze_with_vcd",
                                           by |-> "run_ai_debug",
                                           args |-> args,
                                           reply |-> r])
                /\ ret' = r
                /\ pc' = "done"
                /\ UNCHANGED errVars
           \/ /\ calls' = Append(calls, [fn |-> "analyze_with_vcd",
                                         by |-> "run_ai_debug",
                                         args |-> args,
                                         reply |-> [raise |-> RaisedClass[142]]])
              /\ exc' = RaisedClass[142] /\ cause' = None /\ raised_at' = 142
              /\ pc' = "raised"
              /\ ret' = ret
    /\ UNCHANGED <<top, retries, attempt, response, scanVars, resolveVars,
                   extractVars, orchVars>>

(***************************************************************************)
(* Initial values of the working state, and inputs left unused by a        *)
(* specification of a single function.                                     *)
(***************************************************************************)
NoFiles == [f \in Files |-> None]

WorkInit ==
    /\ exc = "None"
    /\ cause = None
    /\ raised_at = 0
    /\ ret = None
    /\ i = 0
    /\ prev = <<>>
    /\ error_info = None
    /\ related = {}
    /\ stack = <<>>
    /\ scans = [p \in PathStrings |-> 0]
    /\ current_time = InitialTime
    /\ results = <<>>
    /\ vcd_pos = 0
    /\ attempt = 0
    /\ response = None
    /\ calls = <<>>
    /\ related_files = <<>>
    /\ debug_plan = None
    /\ plan = None
    /\ vcd_data = <<>>
    /\ sig_idx = 0

NoLog == log_file = <<>> /\ context_lines = 0

NoTree == fs = NoFiles /\ tb_file = [dir |-> "", name |-> "tb.sv"]
          /\ search_paths = <<>>

NoTrace == vcd_file = <<>> /\ signal = <<>> /\ start = 0 /\ end = 0

NoOracle == retries = 0

InitScan ==
    /\ top = "extract_first_uvm_error"
    /\ pc = "scan"
    /\ log_file \in Logs
    /\ context_lines \in 0..MaxContext
    /\ NoTree /\ NoTrace /\ NoOracle
    /\ WorkInit

NextScan == ScanLine \/ ScanEOF

SpecScan == InitScan /\ [][NextScan]_vars

InitResolve ==
    /\ top = "find_related_tb_files"
    /\ pc = "resolve"
    /\ fs \in FileSystems
    /\ tb_file \in [dir : {"", "inc"}, name : FileNames]
    /\ search_paths \in SearchPaths
    /\ NoLog /\ NoTrace /\ NoOracle
    /\ WorkInit

NextResolve == ResolveEnter \/ ResolveLine \/ ResolveRoot \/ ResolveExit

SpecResolve == InitResolve /\ [][NextResolve]_vars

InitExtract ==
    /\ top = "extract_vcd_window"
    /\ pc = "extract"
    /\ vcd_file \in Traces
    /\ signal \in Signals
    /\ start \in Times
    /\ end \in Times
    /\ NoLog /\ NoTree /\ NoOracle
    /\ WorkInit

NextExtract == ExtractLine \/ ExtractEOF

SpecExtract == InitExtract /\ [][NextExtract]_vars

InitParse ==
    /\ top = "parse_llm_json"
    /\ pc = "parse"
    /\ NoLog /\ NoTree /\ NoTrace /\ NoOracle
    /\ exc = "None"
    /\ cause = None
    /\ raised_at = 0
    /\ ret = None
    /\ i = 0
    /\ prev = <<>>
    /\ error_info = None
    /\ related = {}
    /\ stack = <<>>
    /\ scans = [p \in PathStrings |-> 0]
    /\ current_time = InitialTime
    /\ results = <<>>
    /\ vcd_pos = 0
    /\ attempt = 0
    /\ response \in {[text |-> t] : t \in Texts} \cup {None}
    /\ calls = <<>>
    /\ related_files = <<>>
    /\ debug_plan = None
    /\ plan = None
    /\ vcd_data = <<>>
    /\ sig_idx = 0

NextParse == ParseReply

SpecParse == InitParse /\ [][NextParse]_vars

InitRetry ==
    /\ top = "get_debug_plan_with_retry"
    /\ pc = "retry_ask"
    /\ retries \in (0 - 1)..MaxRetries
    /\ NoLog /\ NoTree /\ NoTrace
    /\ WorkInit

NextRetry == RetryAsk \/ RetryParse

SpecRetry == InitRetry /\ [][NextRetry]_vars

(***************************************************************************)
(* The whole pipeline: run_ai_debug(log_file, vcd_file, tb_search_paths).  *)
(***************************************************************************)
PipelineLogs == SeqsUpTo(LogLines, 1)

PipelineFileSystems ==
    { NoFiles,
      [f \in Files |->
          IF f = [dir |-> ".", name |-> "tb.sv"]
          THEN [lines |-> <<IncludeLine("env.sv")>>]
          ELSE IF f = [dir |-> "inc", name |-> "env.sv"]
          THEN [lines |-> <<>>]
          ELSE None],
      [f \in Files |->
          IF f = [dir |-> ".", name |-> "tb.sv"]
          THEN [lines |-> <<IncludeLine("tb.sv")>>]
          ELSE None] }

PipelineTraces ==
    { <<<<"a", "b">>, <<"#", "1">>, <<"b", "a">>>>,
      <<<<"#", "2">>, <<"a", "b">>, <<"#", "x">>>>,
      <<<<"a", "b">>, <<"#", "x">>>> }

Init ==
    /\ top = "run_ai_debug"
    /\ pc = "scan"
    /\ log_file \in PipelineLogs
    /\ context_lines = MAX_CONTEXT_LINES
    /\ fs \in PipelineFileSystems
    /\ tb_file = [dir |-> "", name |-> "tb.sv"]
    /\ search_paths = <<"inc", ".">>
    /\ vcd_file \in PipelineTraces
    /\ signal = <<>> /\ start = 0 /\ end = 0
    /\ retries = DefaultRetries
    /\ WorkInit

Next ==
    \/ ScanLine \/ ScanEOF \/ RunCheckError
    \/ ResolveEnter \/ ResolveLine \/ ResolveRoot \/ ResolveExit
    \/ AskPlan \/ RetryAsk \/ RetryParse
    \/ ExtractNext \/ ExtractLine \/ ExtractEOF
    \/ Analyze

Spec == Init /\ [][Next]_vars

(***************************************************************************)
(* Properties of the scanner.                                              *)
(***************************************************************************)
Matches(line) == Pattern1(line) # None \/ Pattern2(line) # None

MatchingLines == {n \in 1..Len(log_file) : Matches(log_file[n])}

EarliestMatch == CHOOSE n \in MatchingLines : \A k \in MatchingLines : n <= k

ScanFinished == top = "extract_first_uvm_error" /\ pc \in {"done", "raised"}

\* C1: the scanner returns a record iff some line of the log matches some
\* pattern, the record's log_line is the 1-based index of the earliest such
\* line whichever pattern it matches, and a log without a matching line
\* yields None and no error.
C1_RecordIffEarliestMatch ==
    ScanFinished =>
        IF MatchingLines = {}
        THEN exc = "None" /\ ret = None
        ELSE /\ exc = "None"
             /\ ret # None
             /\ ret.log_line = EarliestMatch

\* C2: when the scanner finds a failure at line n, the context has exactly
\* min(context_depth, n - 1) lines and the matched line is not one of them.
C2_ContextLength ==
    (ScanFinished /\ pc = "done" /\ ret # None) =>
        /\ Len(ret.context) = Min(context_lines, ret.log_line - 1)
        /\ \A k \in 1..Len(ret.context) :
              ret.context[k] # RStrip(log_file[ret.log_line])

(***************************************************************************)
(* Properties of the include resolver.                                     *)
(***************************************************************************)
ResolveFinished == top = "find_related_tb_files" /\ pc \in {"done", "raised"}

\* C3: for every include graph, cyclic ones included, the resolver ends by
\* returning a result (it does not end in an error), and each file path
\* appears at most once in that result.
C3_ResolveReturnsEachPathOnce ==
    ResolveFinished =>
        /\ exc = "None"
        /\ ret # None
        /\ \A a, b \in 1..Len(ret.list) : a # b => ret.list[a] # ret.list[b]

(***************************************************************************)
(* Properties of the waveform extractor.                                   *)
(***************************************************************************)
IsMarker(k) == StartsWithHash(Strip(vcd_file[k]))

MarkerValue(k) == ParseInt(Tail(Strip(vcd_file[k]))).value

\* The time set by the most recent time marker before line k, 0 when no
\* marker precedes it
TimeAt(k) ==
    LET before == {m \in 1..(k - 1) : IsMarker(m)}
    IN  IF before = {} THEN 0
        ELSE MarkerValue(CHOOSE m \in before : \A x \in before : x <= m)

\* Line k is an event line inside the window that names the signal
Qualifies(k) ==
    /\ ~IsMarker(k)
    /\ start <= TimeAt(k)
    /\ TimeAt(k) <= end
    /\ Contains(vcd_file[k], signal)

\* The qualifying lines among the first n lines of the trace, in file order
RECURSIVE QualifyingUpTo(_)
QualifyingUpTo(n) ==
    IF n = 0 THEN <<>>
    ELSE IF Qualifies(n)
         THEN Append(QualifyingUpTo(n - 1), <<TimeAt(n), Strip(vcd_file[n])>>)
         ELSE QualifyingUpTo(n - 1)

ExtractRunning == top = "extract_vcd_window" /\ pc \in {"extract", "done"}

ExtractDone == top = "extract_vcd_window" /\ pc = "done"

\* C4: a non-marker line is emitted iff the time set by the most recent
\* preceding marker lies in [start_time, end_time], both ends included, and
\* the line contains the signal name; so every match lies in the window, no
\* marker line is emitted, and a window without a qualifying line gives the
\* empty sequence and no error.
C4_EmittedIffQualifies ==
    /\ ExtractRunning => results = QualifyingUpTo(vcd_pos)
    /\ ExtractDone =>
          /\ ret.matches = QualifyingUpTo(Len(vcd_file))
          /\ exc = "None"
          /\ \A a \in 1..Len(ret.matches) :
                /\ start <= ret.matches[a][1]
                /\ ret.matches[a][1] <= end
                /\ ~StartsWithHash(ret.matches[a][2])

\* a finished extraction that emitted a line whose time is the window's
\* start, one whose time is the window's end, and left out a line naming the
\* signal whose time is outside the window
C4_Witness ==
    /\ ExtractDone
    /\ \E a, b \in 1..Len(ret.matches) :
          ret.matches[a][1] = start /\ ret.matches[b][1] = end
    /\ \E k \in 1..Len(vcd_file) :
          /\ ~IsMarker(k)
          /\ Contains(vcd_file[k], signal)
          /\ ~Qualifies(k)

NonDecreasing(rs) ==
    \A a, b \in 1..Len(rs) : a < b => rs[a][1] <= rs[b][1]

\* C5 as stated: for every window and every trace, the matches are in
\* non-decreasing order of time.
C5_MatchesNonDecreasing ==
    ExtractRunning => NonDecreasing(results)

\* The markers among the first n lines are non-negative and non-decreasing
\* in file order
MarkersOrderedUpTo(n) ==
    \A a, b \in 1..n :
        (IsMarker(a) /\ IsMarker(b) /\ a <= b) =>
            (0 <= MarkerValue(a) /\ MarkerValue(a) <= MarkerValue(b))

\* C5 amended: for every window and every trace whose time markers are
\* non-negative and non-decreasing in file order, the matches are in
\* non-decreasing order of time.
C5_OrderedTraceMatchesNonDecreasing ==
    (ExtractRunning /\ MarkersOrderedUpTo(vcd_pos)) => NonDecreasing(results)

\* a finished extraction over a time-ordered trace with matches at two
\* different times
C5_Witness ==
    /\ ExtractDone
    /\ MarkersOrderedUpTo(Len(vcd_file))
    /\ \E a, b \in 1..Len(ret.matches) : ret.matches[a][1] < ret.matches[b][1]

(***************************************************************************)
(* Properties of the reply parser.                                         *)
(***************************************************************************)
PayloadMalformed == "ValueError"

PayloadInvalid == "JSONDecodeError"

ParseFinished == top = "parse_llm_json" /\ pc \in {"done", "raised"}

\* The input is None, empty or whitespace only
EmptyInput ==
    \/ response = None
    \/ \A k \in 1..Len(response.text) : response.text[k] \in Whitespace

\* The input without its code-fence markers
Unfenced == RemoveFences(response.text)

\* There is an opening brace with a closing brace after it
HasCandidate ==
    \E a, b \in 1..Len(Unfenced) :
        a < b /\ Unfenced[a] = "{" /\ Unfenced[b] = "}"

\* The text from the first opening brace through the last closing brace
Candidate ==
    LET a == CHOOSE x \in 1..Len(Unfenced) :
                /\ Unfenced[x] = "{"
                /\ \A y \in 1..(x - 1) : Unfenced[y] # "{"
        b == CHOOSE x \in 1..Len(Unfenced) :
                /\ Unfenced[x] = "}"
                /\ \A y \in (x + 1)..Len(Unfenced) : Unfenced[y] # "}"
    IN  SubSeq(Unfenced, a, b)

\* C6: empty or whitespace-only input and text without a brace-delimited
\* candidate fail with PayloadMalformed, a candidate that is not well-formed
\* structured data fails with PayloadInvalid, a different kind, and a value
\* is returned only when the candidate decodes.
C6_MalformedVersusInvalid ==
    ParseFinished =>
        /\ (EmptyInput \/ ~HasCandidate) =>
              (pc = "raised" /\ exc = PayloadMalformed)
        /\ (~EmptyInput /\ HasCandidate /\ IsRaise(JsonLoads(Candidate))) =>
              (pc = "raised" /\ exc = PayloadInvalid)
        /\ pc = "done" =>
              /\ ~EmptyInput /\ HasCandidate
              /\ ~IsRaise(JsonLoads(Candidate))
              /\ ret = JsonLoads(Candidate)
        /\ PayloadMalformed # PayloadInvalid

\* a fenced reply whose braces hold something that is not JSON was rejected
\* as PayloadInvalid
C6_Witness ==
    /\ ParseFinished
    /\ exc = PayloadInvalid
    /\ \E k \in 1..Len(response.text) : response.text[k] \in Fences
    /\ HasCandidate

(***************************************************************************)
(* Properties of the retry loop.                                           *)
(***************************************************************************)
RetryFinished ==
    top = "get_debug_plan_with_retry" /\ pc \in {"done", "raised"}

\* The k-th oracle invocation returned text that does not parse
Unparsable(k) ==
    /\ ~IsRaise(calls[k].reply)
    /\ IsRaise(parse_llm_json(calls[k].reply))

\* The k-th oracle invocation returned text that parses
Parsable(k) ==
    /\ ~IsRaise(calls[k].reply)
    /\ ~IsRaise(parse_llm_json(calls[k].reply))

PlanExhausted == "RuntimeError"

\* C7: with max_retries = N >= 0 and an oracle whose every reply is
\* unparsable, the oracle is invoked exactly N + 1 times and the call then
\* fails with PlanExhausted; no run invokes the oracle more than N + 1 times.
C7_ExhaustedAfterNPlusOne ==
    (top = "get_debug_plan_with_retry" /\ retries >= 0) =>
        /\ Len(calls) <= retries + 1
        /\ (RetryFinished /\ \A k \in 1..Len(calls) : Unparsable(k)) =>
              /\ pc = "raised"
              /\ exc = PlanExhausted
              /\ raised_at = 175
              /\ Len(calls) = retries + 1
        /\ (pc = "raised" /\ raised_at = 175) =>
              /\ Len(calls) = retries + 1
              /\ \A k \in 1..Len(calls) : Unparsable(k)

\* max_retries = 2: PlanExhausted after three unparsable replies
C7_Witness ==
    /\ top = "get_debug_plan_with_retry"
    /\ retries = 2
    /\ pc = "raised"
    /\ exc = PlanExhausted
    /\ Len(calls) = 3
    /\ \A k \in 1..3 : Unparsable(k)

\* C8: if the k-th reply is the first that parses, the call returns the plan
\* parsed from that reply after exactly k invocations: nothing is invoked
\* after a reply that parses, and the failed replies before it do not change
\* the plan.
C8_FirstParsableReplyWins ==
    (top = "get_debug_plan_with_retry" /\ retries >= 0) =>
        /\ \A k \in 1..Len(calls) :
              Parsable(k) =>
                  /\ k = Len(calls)
                  /\ k <= retries + 1
                  /\ pc \in {"retry_parse", "done"}
                  /\ \A j \in 1..(k - 1) : Unparsable(j)
        /\ pc = "done" =>
              /\ calls # <<>>
              /\ Parsable(Len(calls))
              /\ ret = [value |-> parse_llm_json(calls[Len(calls)].reply).value]
              /\ exc = "None"

\* the third reply was the first to parse and its plan was returned
C8_Witness ==
    /\ top = "get_debug_plan_with_retry"
    /\ pc = "done"
    /\ Len(calls) = 3
    /\ Unparsable(1) /\ Unparsable(2) /\ Parsable(3)
    /\ ret = [value |-> parse_llm_json(calls[3].reply).value]

(***************************************************************************)
(* Properties of the orchestrator.                                         *)
(***************************************************************************)
\* The stage of run_ai_debug that a position belongs to: 1 scan, 2 resolve,
\* 3 raw-plan oracle call, 4 retry loop, 5 waveform extraction, 6 final
\* report, 7 returned; 0 for a run ended by an exception
StageRank(p) ==
    CASE p \in {"scan", "scanned"} -> 1
      [] p \in {"resolve", "resolve_scan"} -> 2
      [] p = "ask_plan" -> 3
      [] p \in {"retry_ask", "retry_parse"} -> 4
      [] p \in {"extract_loop", "extract"} -> 5
      [] p = "analyze" -> 6
      [] p = "done" -> 7
      [] OTHER -> 0

NoFailureFound == pc = "raised" /\ raised_at = 183

\* What a step may do in each stage
StageStep ==
    /\ pc \notin {"done", "raised"}
    /\ pc' # "raised" =>
          /\ StageRank(pc') \in {StageRank(pc), StageRank(pc) + 1}
          /\ exc' = "None"
    /\ <<i, prev, error_info>>' # <<i, prev, error_info>> => StageRank(pc) = 1
    /\ <<related, stack, scans>>' # <<related, stack, scans>> =>
          StageRank(pc) = 2
    /\ calls' # calls =>
          /\ Len(calls') = Len(calls) + 1
          /\ LET c == calls'[Len(calls')]
             IN  \/ /\ pc = "ask_plan"
                    /\ c.fn = "ask_llm_for_debug_plan"
                    /\ c.by = "run_ai_debug"
                 \/ /\ StageRank(pc) = 4
                    /\ c.fn = "ask_llm_for_debug_plan"
                    /\ c.by = "get_debug_plan_with_retry"
                 \/ /\ pc = "analyze"
                    /\ c.fn = "analyze_with_vcd"
    /\ <<current_time, results, vcd_pos, vcd_data>>'
          # <<current_time, results, vcd_pos, vcd_data>> => StageRank(pc) = 5

\* What has not happened when the scanner found no failure
NoFailureAborts ==
    /\ (top = "run_ai_debug" /\ pc # "scan" /\ MatchingLines = {}) =>
          (pc = "scanned" \/ (NoFailureFound /\ exc = "RuntimeError"))
    /\ (top = "run_ai_debug" /\ NoFailureFound) =>
          /\ error_info = None
          /\ related = {}
          /\ \A p \in PathStrings : scans[p] = 0
          /\ calls = <<>>
          /\ vcd_pos = 0
          /\ vcd_data = <<>>

\* C9: the stages run in the order scan, resolve, raw-plan oracle call,
\* retry loop, per-signal extraction, final-report oracle call; a stage
\* starts only after every earlier one completed without an error; when the
\* scanner finds no failure the run ends with NoFailureFound and no resolver
\* step, no oracle invocation and no extraction has happened.
C9_StagesInOrder == [][StageStep]_vars /\ []NoFailureAborts

\* a run that went through all six stages and returned the final report
C9_Witness ==
    /\ top = "run_ai_debug"
    /\ pc = "done"
    /\ error_info # None
    /\ related # {}
    /\ Len(calls) >= 3
    /\ calls[1].by = "run_ai_debug"
    /\ calls[2].by = "get_debug_plan_with_retry"
    /\ calls[Len(calls)].fn = "analyze_with_vcd"
    /\ vcd_data # <<>>

\* The fatal condition that each raising line stands for
FatalCondition ==
    [l \in {183, 175, 117, 100, 142} |->
        CASE l = 183 -> "NoFailureFound"
          [] l = 175 -> "PlanExhausted"
          [] l = 117 -> "TraceParseError"
          [] l \in {100, 142} -> "OracleCallError"]

\* C10: the error kinds raised for NoFailureFound, PlanExhausted,
\* TraceParseError and OracleCallError are pairwise different, so the kind
\* that reaches the caller of the pipeline tells which of them happened.
C10_FatalKindsPairwiseDistinct ==
    (top = "run_ai_debug" /\ pc = "raised"
        /\ raised_at \in DOMAIN FatalCondition) =>
        \A l \in DOMAIN FatalCondition :
            FatalCondition[l] # FatalCondition[raised_at] =>
                RaisedClass[l] # exc

(***************************************************************************)
(* Properties of the final report.                                         *)
(***************************************************************************)
\* Event line k of the trace lies in the window [s, e] and names sig
QualifiesFor(k, sig, s, e) ==
    /\ ~IsMarker(k)
    /\ s <= TimeAt(k)
    /\ TimeAt(k) <= e
    /\ Contains(vcd_file[k], sig)

\* What the extractor owes for sig over [s, e] on the first n trace lines
RECURSIVE MatchesFor(_, _, _, _)
MatchesFor(n, sig, s, e) ==
    IF n = 0 THEN <<>>
    ELSE IF QualifiesFor(n, sig, s, e)
         THEN Append(MatchesFor(n - 1, sig, s, e),
                     <<TimeAt(n), Strip(vcd_file[n])>>)
         ELSE MatchesFor(n - 1, sig, s, e)

\* The indices of the final-report invocations
ReportCalls == {k \in 1..Len(calls) : calls[k].fn = "analyze_with_vcd"}

\* The indices of the invocations made by the retry loop
RetryCalls ==
    {k \in 1..Len(calls) : calls[k].by = "get_debug_plan_with_retry"}

PipelineDone == top = "run_ai_debug" /\ pc = "done"

\* C11: in a run that completes the final-report oracle is invoked exactly
\* once, as the last invocation and after all extractions, with the failure
\* record, the unmodified text of the step-3 reply, and a mapping whose keys
\* are exactly the signals of the step-4 plan, each with the extractor's
\* result over that plan's window; the step-4 reply text is not passed and
\* the step-3 reply does not decide the signals or the window.
C11_FinalReportInputs ==
    PipelineDone =>
        /\ ReportCalls = {Len(calls)}
        /\ sig_idx = Len(plan.signals)
        /\ calls[1].fn = "ask_llm_for_debug_plan"
        /\ calls[1].by = "run_ai_debug"
        /\ RetryCalls = 2..(Len(calls) - 1)
        /\ plan = parse_llm_json(calls[Len(calls) - 1].reply).value
        /\ LET a == calls[Len(calls)].args
           IN  /\ a.error_info = error_info
               /\ a.debug_plan = calls[1].reply
               /\ DOMAIN a.vcd_data =
                     {plan.signals[k] : k \in 1..Len(plan.signals)}
               /\ \A sig \in DOMAIN a.vcd_data :
                     a.vcd_data[sig] =
                        MatchesFor(Len(vcd_file), sig, plan.start_time,
                                   plan.end_time)

\* a completed run whose step-3 reply does not parse while the step-4 reply
\* does, and whose final report received a match for a signal of the plan
C11_Witness ==
    /\ PipelineDone
    /\ IsRaise(parse_llm_json(calls[1].reply))
    /\ calls[1].reply # calls[Len(calls) - 1].reply
    /\ \E sig \in DOMAIN calls[Len(calls)].args.vcd_data :
          calls[Len(calls)].args.vcd_data[sig] # <<>>

(***************************************************************************)
(* Properties of the validated plan.                                       *)
(***************************************************************************)
\* C12: every plan that the validator returns and the orchestrator uses as
\* a waveform window has start_time <= end_time, whatever well-formed
\* object the oracle replied with.
C12_PlanWindowOrdered ==
    /\ (top = "run_ai_debug" /\ plan # None
          /\ {"start_time", "end_time"} \subseteq DOMAIN plan) =>
          plan.start_time <= plan.end_time
    /\ (top = "run_ai_debug" /\ pc = "extract") => start <= end

(***************************************************************************)
(* Further properties of the include resolver.                             *)
(***************************************************************************)
ResolveDone == top = "find_related_tb_files" /\ pc = "done"

\* The paths in the returned list
Returned == {ret.list[k] : k \in 1..Len(ret.list)}

\* C13 as stated: the result always contains the entry file.
C13_ResultContainsEntry ==
    ResolveDone => tb_file \in Returned

\* C13 amended: a result returned for an entry file that exists contains
\* the entry file, also when that file has no include directive; for an
\* entry file that does not exist the result is empty.
C13_ResultContainsExistingEntry ==
    ResolveDone =>
        /\ Exists(tb_file) => tb_file \in Returned
        /\ ~Exists(tb_file) => Returned = {}

\* the entry file exists, has no line at all, and is the whole result
C13_Witness ==
    /\ ResolveDone
    /\ Exists(tb_file)
    /\ fs[Canon(tb_file)].lines = <<>>
    /\ ret.list = <<tb_file>>

\* The positions in search_paths of the roots under which name exists
RootsHolding(name) ==
    {k \in 1..Len(search_paths) : Exists(Join(search_paths[k], name))}

\* The first root, in the given order, under which name exists
FirstRoot(name) ==
    search_paths[CHOOSE k \in RootsHolding(name) :
                    \A j \in RootsHolding(name) : k <= j]

\* C14: for each include directive only the copy under the first root that
\* holds the referenced file is followed and added to the result; a copy
\* under a later root is not.
C14_FirstRootWins ==
    ResolveDone =>
        \A p \in Returned : p # tb_file => p.dir = FirstRoot(p.name)

\* C15: during one call of find_related_tb_files no path is opened and read
\* by scan more than once, whatever the include graph.
C15_NoFileScannedTwice ==
    top = "find_related_tb_files" => \A p \in PathStrings : scans[p] <= 1

(***************************************************************************)
(* Properties of oracle failures.                                          *)
(***************************************************************************)
\* The oracle invocations that failed in transport
FailedCalls == {k \in 1..Len(calls) : IsRaise(calls[k].reply)}

\* C16: a transport failure of any oracle invocation (the raw plan, an
\* attempt of the retry loop, the final report) ends the run with that
\* failure, unwrapped, and no invocation follows it; an attempt of the retry
\* loop after the first follows only a reply that parse_llm_json rejected.
C16_TransportFailureNeverRetried ==
    /\ \A k \in FailedCalls :
          /\ k = Len(calls)
          /\ pc = "raised"
          /\ exc = calls[k].reply.raise
          /\ exc = "APIError"
          /\ cause = None
    /\ \A k \in 2..Len(calls) :
          (calls[k].by = "get_debug_plan_with_retry"
             /\ calls[k - 1].by = "get_debug_plan_with_retry") =>
              /\ ~IsRaise(calls[k - 1].reply)
              /\ IsRaise(parse_llm_json(calls[k - 1].reply))

\* A failure in the third attempt of the retry loop, after two rejected replies
C16_Witness ==
    /\ top = "run_ai_debug" /\ pc = "raised"
    /\ Len(calls) = 4
    /\ FailedCalls = {4}
    /\ calls[4].by = "get_debug_plan_with_retry"

\* C17: for every integer retry limit, a call of get_debug_plan_with_retry in
\* which no oracle invocation fails in transport ends either by returning
\* the plan parsed from the last reply or by raising PlanExhausted with the
\* last parse failure as its cause; it never returns without a plan, and it
\* makes at most limit + 1 attempts.
C17_SuccessOrExhausted ==
    top = "get_debug_plan_with_retry" =>
        /\ Len(calls) <= retries + 1
        /\ attempt <= retries + 1
        /\ (RetryFinished /\ FailedCalls = {}) =>
              \/ /\ pc = "done"
                 /\ ret # [value |-> None]
                 /\ calls # <<>>
                 /\ ret = [value |-> parse_llm_json(calls[Len(calls)].reply).value]
              \/ /\ pc = "raised"
                 /\ exc = PlanExhausted
                 /\ cause # None
                 /\ cause.exc \in {PayloadMalformed, PayloadInvalid}

(***************************************************************************)
(* Properties of the candidate payload.                                    *)
(***************************************************************************)
\* The positions of a token in the input without its fences
PositionsOf(tok) == {k \in 1..Len(Unfenced) : Unfenced[k] = tok}

\* The input holds two brace-delimited objects, one after the other
TwoObjects ==
    \E a, b, c, d \in 1..Len(Unfenced) :
        /\ a < b /\ b < c /\ c < d
        /\ Unfenced[a] = "{" /\ Unfenced[b] = "}"
        /\ Unfenced[c] = "{" /\ Unfenced[d] = "}"

\* The input is one object, empty or with the members m, between texts that
\* hold no brace
SingleObject(obj) ==
    /\ Cardinality(PositionsOf("{")) = 1
    /\ Cardinality(PositionsOf("}")) = 1
    /\ \E a \in PositionsOf("{") : \E b \in PositionsOf("}") :
          /\ a < b
          /\ LET body == Strip(SubSeq(Unfenced, a + 1, b - 1))
             IN  \/ body = <<>> /\ obj = EmptyObject
                 \/ Len(body) = 1 /\ body[1] \in Members
                      /\ obj = ObjectOf[body[1]]

TraceParseError == "ValueError"

\* Line k is a time marker whose text after "#" is not an integer: what
\* follows the sign, if any, is empty or holds something that is not a digit
BadMarker(k) ==
    /\ IsMarker(k)
    /\ LET t  == Strip(Tail(Strip(vcd_file[k])))
           ds == IF t # <<>> /\ t[1] \in {"-", "+"} THEN Tail(t) ELSE t
       IN  ds = <<>> \/ \E x \in 1..Len(ds) : ds[x] \notin Digits

\* C19: a time marker with a non-numeric value makes extract_vcd_window fail
\* with TraceParseError wherever the window lies: the extraction never reads
\* past it, returns no matches for that call (those collected before it
\* included), and run_ai_debug ends with the failure before the final report
\* is asked for.
C19_BadMarkerIsFatal ==
    /\ pc = "extract" => \A k \in 1..vcd_pos : ~BadMarker(k)
    /\ raised_at = 117 =>
          /\ pc = "raised"
          /\ exc = TraceParseError
          /\ BadMarker(vcd_pos)
          /\ ret = None
          /\ signal \notin DOMAIN vcd_data
          /\ ReportCalls = {}
    /\ (pc = "raised" /\ raised_at # 117 /\ vcd_pos > 0) =>
          ~BadMarker(vcd_pos)
    /\ (vcd_data # <<>> \/ (top = "extract_vcd_window" /\ pc = "done")) =>
          \A k \in 1..Len(vcd_file) : ~BadMarker(k)

\* run_ai_debug ended at a bad marker after a line before it had matched
C19_Witness ==
    /\ top = "run_ai_debug"
    /\ pc = "raised" /\ raised_at = 117
    /\ results # <<>>
    /\ BadMarker(vcd_pos)
    /\ ReportCalls = {}

(***************************************************************************)
(* Properties of the lines before the first time marker.                   *)
(***************************************************************************)
\* No time marker is among the first n lines of the trace
NoMarkerUpTo(n) == \A m \in 1..n : ~IsMarker(m)

\* The number of lines before the first time marker among the first n lines
RECURSIVE LeadingLines(_)
LeadingLines(n) ==
    IF n = 0 \/ NoMarkerUpTo(n) THEN n ELSE LeadingLines(n - 1)

\* What the first n lines owe when none of them is a marker: each line that
\* contains the signal, with time 0, if the window holds 0
RECURSIVE LeadingMatches(_)
LeadingMatches(n) ==
    IF n = 0 THEN <<>>
    ELSE IF start <= 0 /\ 0 <= end /\ Contains(Strip(vcd_file[n]), signal)
         THEN Append(LeadingMatches(n - 1), <<0, Strip(vcd_file[n])>>)
         ELSE LeadingMatches(n - 1)

\* C20: the lines before the first time marker are tested with
\* current_time = 0: such a line is emitted, with time 0, exactly when
\* start_time <= 0 <= end_time and it contains the signal name, and none is
\* emitted when the window excludes 0.
C20_LeadingLinesAtTimeZero ==
    ExtractRunning =>
        LET lead == LeadingMatches(LeadingLines(vcd_pos))
        IN  /\ NoMarkerUpTo(vcd_pos) => (current_time = 0 /\ results = lead)
            /\ Len(lead) <= Len(results)
            /\ SubSeq(results, 1, Len(lead)) = lead
            /\ ~(start <= 0 /\ 0 <= end) => lead = <<>>

\* a finished extraction that emitted a line found before the first marker
\* with time 0 and went on past a marker
C20_Witness ==
    /\ ExtractDone
    /\ LeadingLines(Len(vcd_file)) > 0
    /\ LeadingLines(Len(vcd_file)) < Len(vcd_file)
    /\ LeadingMatches(LeadingLines(Len(vcd_file))) # <<>>
    /\ ret.matches[1][1] = 0

====
